---- MODULE Spec2Model ----
(***************************************************************************)
(* Rideshare backend (server.js, latest revision): the group tables, the   *)
(* membership transactions (create-trip, join-group, leave-group, delete)  *)
(* as concurrent request handlers over a READ COMMITTED store with row     *)
(* locks, and the search-groups pipeline.                                  *)
(***************************************************************************)
EXTENDS Integers, Sequences, FiniteSets, Bags, TLC

\* ---------------------------------------------------------------- bounds
NumUsers == 3
NumProcs == 2
MaxGroups == 1

\* ------------------------------------------------------ program constants
MaxCapacity == 200
DefaultCapacity == 4

Users == 1..NumUsers
Procs == 1..NumProcs
Gids == 1..MaxGroups

\* users.gender as stored by /register: 'M', 'F' or NULL
UserGender(u) == IF u % 3 = 1 THEN "F" ELSE IF u % 3 = 2 THEN "M" ELSE "NULL"

\* (ug.rows[0]?.gender || "").toUpperCase()
GenderUpper(u) == IF UserGender(u) = "NULL" THEN "" ELSE UserGender(u)

\* validatePreference
validatePreference(pref) == pref \in {"ALL", "FEMALE_ONLY"}

VARIABLES
  groups,    \* committed rows of table groups: gid -> row
  members,   \* committed rows of table group_members: a bag of <<gid, uid>>
  gidSeq,    \* the SERIAL sequence behind groups.gid
  lock,      \* gid -> the handler holding the row lock (0: free)
  pc,        \* where each request handler stands
  rq,        \* the request each handler serves
  gq,        \* the groups row a handler read under FOR UPDATE
  tx,        \* the uncommitted writes of each handler's transaction
  resp,      \* the response each handler sent last
  race,      \* observation only: the two handlers of a capacity race under watch
  sq,        \* the search-groups request served last
  found,     \* the groups it answered, in their order
  connections, \* rows of table connections: a bag of <<u1, u2>>
  served,    \* the request on connections served last, with its answer
  wrote,     \* observation only: a step of the handler's request changed a table
  failed     \* observation only: the gid of the delete that the step just taken
             \* made fail between its two DELETE statements, else 0

vars == <<groups, members, gidSeq, lock, pc, rq, gq, tx, resp, race, sq, found,
          connections, served, wrote, failed>>

\* ------------------------------------------------------------ city names
\* A string is a sequence of one-character strings
UpperCase == <<"A","B","C","D","E","F","G","H","I","J","K","L","M",
               "N","O","P","Q","R","S","T","U","V","W","X","Y","Z">>
LowerCase == <<"a","b","c","d","e","f","g","h","i","j","k","l","m",
               "n","o","p","q","r","s","t","u","v","w","x","y","z">>
Range(f) == {f[i] : i \in DOMAIN f}

\* String.prototype.toLowerCase, one character
LowerChar(c) ==
  IF \E i \in DOMAIN UpperCase : UpperCase[i] = c
  THEN LowerCase[CHOOSE i \in DOMAIN UpperCase : UpperCase[i] = c] ELSE c
toLowerCase(s) == [i \in DOMAIN s |-> LowerChar(s[i])]

\* the characters kept by /[^a-zA-Z.\-\s]/g
KeptChars == Range(UpperCase) \cup Range(LowerCase) \cup {".", "-", " "}
KeptChar(c) == c \in KeptChars

RECURSIVE StripChars(_)
StripChars(s) ==
  IF s = <<>> THEN <<>>
  ELSE IF KeptChar(Head(s)) THEN <<Head(s)>> \o StripChars(Tail(s))
  ELSE StripChars(Tail(s))

\* .replace(/\s+/g, " ")
RECURSIVE CollapseSpaces(_)
CollapseSpaces(s) ==
  IF Len(s) < 2 THEN s
  ELSE IF s[1] = " " /\ s[2] = " " THEN CollapseSpaces(Tail(s))
  ELSE <<s[1]>> \o CollapseSpaces(Tail(s))

\* String.prototype.trim
RECURSIVE TrimLeft(_)
TrimLeft(s) == IF s # <<>> /\ Head(s) = " " THEN TrimLeft(Tail(s)) ELSE s
RECURSIVE TrimRight(_)
TrimRight(s) ==
  IF s # <<>> /\ s[Len(s)] = " " THEN TrimRight(SubSeq(s, 1, Len(s) - 1)) ELSE s
trim(s) == TrimRight(TrimLeft(s))

\* normalizeCityName; a missing or empty input gives null, modelled as <<>>
normalizeCityName(s) == IF s = <<>> THEN <<>> ELSE trim(CollapseSpaces(StripChars(s)))

Patiala == <<"P","a","t","i","a","l","a">>
Delhi == <<"D","e","l","h","i">>
Chandigarh == <<"C","h","a","n","d","i","g","a","r","h">>
NewDelhi == <<"N","e","w"," ","D","e","l","h","i">>

\* isPatialaCity
isPatialaCity(s) == toLowerCase(trim(s)) = toLowerCase(Patiala)

\* the city list read from cities_only.csv at start-up, lower-cased
CITY_SET ==
  {toLowerCase(Patiala), toLowerCase(Delhi), toLowerCase(Chandigarh), toLowerCase(NewDelhi)}
DEV_ALLOW_UNKNOWN_CITIES == FALSE

\* isValidCity
isValidCity(c) ==
  IF c = <<>> THEN FALSE
  ELSE IF CITY_SET = {} THEN TRUE
  ELSE toLowerCase(c) \in CITY_SET \/ DEV_ALLOW_UNKNOWN_CITIES

\* the stops of a create-trip body: normalised, valid, without the
\* endpoints and without repeats (case-insensitive), in their order
RECURSIVE CleanStops(_, _, _, _)
CleanStops(raw, sLower, dLower, seen) ==
  IF raw = <<>> THEN <<>>
  ELSE LET x == normalizeCityName(Head(raw))
           v == toLowerCase(x)
       IN IF x # <<>> /\ isValidCity(x) /\ v # sLower /\ v # dLower /\ v \notin seen
          THEN <<x>> \o CleanStops(Tail(raw), sLower, dLower, seen \cup {v})
          ELSE CleanStops(Tail(raw), sLower, dLower, seen)

\* cleanedStops.join("|")
RECURSIVE JoinStops(_)
JoinStops(stops) ==
  IF stops = <<>> THEN <<>>
  ELSE IF Len(stops) = 1 THEN stops[1]
  ELSE stops[1] \o <<"|">> \o JoinStops(Tail(stops))

\* regexp_split_to_array(g.stops, '\|') and row.stops.split("|")
RECURSIVE SplitStops(_, _)
SplitStops(s, cur) ==
  IF s = <<>> THEN <<cur>>
  ELSE IF Head(s) = "|" THEN <<cur>> \o SplitStops(Tail(s), <<>>)
  ELSE SplitStops(Tail(s), Append(cur, Head(s)))

NoRow == [capacity |-> 0, preference |-> "", created_by |-> 0,
          start |-> <<>>, dest |-> <<>>, stops |-> <<>>, departure_date |-> -1]
NoReq == [op |-> "none", uid |-> 0, gid |-> 0, auto_join_creator |-> FALSE]
NoResp == [code |-> 0, msg |-> "", seats_left |-> -1]
NoSearch == [viewer |-> -1]
NoServed == [kind |-> "none"]

\* ok(res, data): data is { group } ("group", with its seats_left),
\* { left: true } ("left", with the seats_left of the group if one is sent)
\* or { deleted: true } ("deleted")
ok(data, seats) == [code |-> 200, msg |-> data, seats_left |-> seats]
respondError(code, message) == [code |-> code, msg |-> message, seats_left |-> -1]

\* ------------------------------------------------------------ the store
\* Number of group_members rows with the given gid
CountMembers(m, g) ==
  LET rows == {r \in BagToSet(m) : r[1] = g}
  IN  BagCardinality([r \in rows |-> m[r]])

IsMember(m, g, u) == BagIn(<<g, u>>, m)

\* INSERT INTO group_members ... ON CONFLICT DO NOTHING (PRIMARY KEY (gid, uid))
InsertMember(m, g, u) ==
  IF BagIn(<<g, u>>, m) THEN m ELSE m (+) SetToBag({<<g, u>>})

\* (mutant: DELETE FROM group_members WHERE gid=$1, the uid is not looked at)
DeleteMemberOfAnyUser(m, g, u) ==
  [r \in {x \in BagToSet(m) : x[1] # g} |-> m[r]]

\* DELETE FROM group_members WHERE gid=$1 AND uid=$2
DeleteMember(m, g, u) ==
  [r \in BagToSet(m) \ {<<g, u>>} |-> m[r]]

\* DELETE FROM group_members WHERE gid=$1
DeleteMembersOf(m, g) ==
  [r \in {x \in BagToSet(m) : x[1] # g} |-> m[r]]

\* DELETE FROM groups WHERE gid=$1
DeleteGroupRow(gs, g) == [x \in DOMAIN gs \ {g} |-> gs[x]]

\* One write of a transaction applied to the tables db = [g |-> groups, m |-> members]
ApplyWrite(db, w) ==
  CASE w.t = "insG"  -> [db EXCEPT !.g = [x \in DOMAIN db.g \cup {w.gid} |->
                                            IF x = w.gid THEN w.row ELSE db.g[x]]]
    [] w.t = "insM"  -> [db EXCEPT !.m = InsertMember(db.m, w.gid, w.uid)]
    [] w.t = "delM"  -> [db EXCEPT !.m = DeleteMember(db.m, w.gid, w.uid)]
    [] w.t = "delMg" -> [db EXCEPT !.m = DeleteMembersOf(db.m, w.gid)]
    [] w.t = "delG"  -> [db EXCEPT !.g = DeleteGroupRow(db.g, w.gid)]

RECURSIVE ApplyLog(_, _)
ApplyLog(db, log) ==
  IF log = <<>> THEN db ELSE ApplyLog(ApplyWrite(db, Head(log)), Tail(log))

Write(t, g, u, row) == [t |-> t, gid |-> g, uid |-> u, row |-> row]

\* What the statements of handler p see: committed rows plus its own writes
View(p) == ApplyLog([g |-> groups, m |-> members], tx[p])

\* (mutant: the creator's row takes no seat)
SeatsLeftSansCreator(row, m, g) ==
  LET cnt == CountMembers(m, g) - (IF IsMember(m, g, row.created_by) THEN 1 ELSE 0)
      d == row.capacity - cnt
  IN  IF d > 0 THEN d ELSE 0

\* formatGroupByRow: seats_left
SeatsLeft(row, m, g) ==
  LET d == row.capacity - CountMembers(m, g) IN IF d > 0 THEN d ELSE 0

\* ---------------------------------------------------------- transactions
\* COMMIT: the writes become visible, the row locks are released
Commit(p) ==
  /\ groups' = View(p).g
  /\ members' = View(p).m
  /\ lock' = [g \in Gids |-> IF lock[g] = p THEN 0 ELSE lock[g]]
  /\ tx' = [tx EXCEPT ![p] = <<>>]

\* ROLLBACK: the writes are dropped, the row locks are released
Rollback(p) ==
  /\ UNCHANGED <<groups, members>>
  /\ lock' = [g \in Gids |-> IF lock[g] = p THEN 0 ELSE lock[g]]
  /\ tx' = [tx EXCEPT ![p] = <<>>]

\* res.status(..).json(..): the handler is finished
Respond(p, r) ==
  /\ resp' = [resp EXCEPT ![p] = r]
  /\ pc' = [pc EXCEPT ![p] = "idle"]
  /\ rq' = [rq EXCEPT ![p] = NoReq]
  /\ gq' = [gq EXCEPT ![p] = NoRow]

\* The handler has its answer r and issues ROLLBACK before it sends it
Decline(p, r) ==
  /\ resp' = [resp EXCEPT ![p] = r]
  /\ pc' = [pc EXCEPT ![p] = "rollback"]
  /\ UNCHANGED <<groups, members, gidSeq, lock, rq, gq, tx>>

\* await client.query("ROLLBACK"); return <the answer>
RollbackAndRespond(p) ==
  /\ pc[p] = "rollback"
  /\ Rollback(p)
  /\ Respond(p, resp[p])
  /\ UNCHANGED gidSeq

\* SELECT ... FROM groups WHERE gid = $1 FOR UPDATE: waits while another
\* transaction holds the row; a row that is gone gives rowCount 0
\* (mutant: a plain SELECT, which never waits)
SelectWithoutLock(g) == TRUE
LockFree(g) == lock[g] = 0

Init ==
  /\ groups = <<>>
  /\ members = EmptyBag
  /\ gidSeq = 0
  /\ lock = [g \in Gids |-> 0]
  /\ pc = [p \in Procs |-> "idle"]
  /\ rq = [p \in Procs |-> NoReq]
  /\ gq = [p \in Procs |-> NoRow]
  /\ tx = [p \in Procs |-> <<>>]
  /\ resp = [p \in Procs |-> NoResp]
  /\ race = <<>>
  /\ sq = NoSearch
  /\ found = <<>>
  /\ connections = EmptyBag
  /\ served = NoServed
  /\ wrote = [p \in Procs |-> FALSE]
  /\ failed = 0

\* ------------------------------------------------------- POST /create-trip
\* A request body: capacity -1 and preference "" stand for an absent field,
\* departure -1 for none
Body(start, dest, stops, cap, pref, dep, auto) ==
  [start |-> start, dest |-> dest, stops |-> stops, capacity |-> cap,
   preference |-> pref, departure |-> dep, auto_join_creator |-> auto]

\* The bodies tried: the accepted ones, one with every option left to its
\* default, and one for each way to be refused
TripBodies ==
  { Body(Patiala, Chandigarh, <<>>, c, pr, -1, a) :
      c \in {1, 2}, pr \in {"", "FEMALE_ONLY"}, a \in BOOLEAN }
  \cup { Body(Patiala, Chandigarh, <<>>, -1, "", -1, TRUE),
         Body(Patiala, Chandigarh, <<>>, 1, "female_only", -1, TRUE),
         Body(<<>>, Patiala, <<>>, 1, "", -1, TRUE),
         Body(<<"4", "2">>, Patiala, <<>>, 1, "", -1, TRUE),
         Body(Patiala, <<"X", "y">>, <<>>, 1, "", -1, TRUE),
         Body(Delhi, Chandigarh, <<>>, 1, "", -1, TRUE),
         Body(Patiala, Delhi, <<>>, 1, "MIXED", -1, TRUE),
         Body(Patiala, Delhi, <<>>, 0, "", -1, TRUE),
         Body(Delhi, Patiala, <<>>, MaxCapacity + 1, "ALL", -1, TRUE) }

\* safeInt(raw.capacity, 4)
CapacityOf(c) == IF c = -1 THEN DefaultCapacity ELSE c
\* raw.preference ? String(raw.preference).toUpperCase() : "ALL"
PreferenceOf(x) ==
  IF x = "" THEN "ALL"
  ELSE IF x = "female_only" THEN "FEMALE_ONLY"
  ELSE IF x = "all" THEN "ALL"
  ELSE x

\* (mutant: neither the creator's gender nor the capacity is checked)
CreateTripErrorLax(u, body) ==
  LET startNorm == normalizeCityName(body.start)
      destNorm == normalizeCityName(body.dest)
      preference == PreferenceOf(body.preference)
  IN  IF startNorm = <<>> \/ destNorm = <<>>
        THEN respondError(400, "authenticated user, start and dest required")
      ELSE IF ~isValidCity(startNorm) THEN respondError(400, "Invalid start city")
      ELSE IF ~isValidCity(destNorm) THEN respondError(400, "Invalid destination city")
      ELSE IF ~(isPatialaCity(startNorm) \/ isPatialaCity(destNorm))
        THEN respondError(400, "either start or destination must be Patiala")
      ELSE IF ~validatePreference(preference) THEN respondError(400, "invalid preference")
      ELSE NoResp

\* The validation of a create-trip body: NoResp when it passes, else the error
CreateTripError(u, body) ==
  LET startNorm == normalizeCityName(body.start)
      destNorm == normalizeCityName(body.dest)
      capacity == CapacityOf(body.capacity)
      preference == PreferenceOf(body.preference)
  IN  IF startNorm = <<>> \/ destNorm = <<>>
        THEN respondError(400, "authenticated user, start and dest required")
      ELSE IF ~isValidCity(startNorm) THEN respondError(400, "Invalid start city")
      ELSE IF ~isValidCity(destNorm) THEN respondError(400, "Invalid destination city")
      ELSE IF ~(isPatialaCity(startNorm) \/ isPatialaCity(destNorm))
        THEN respondError(400, "either start or destination must be Patiala")
      ELSE IF ~validatePreference(preference) THEN respondError(400, "invalid preference")
      ELSE IF preference = "FEMALE_ONLY" /\ GenderUpper(u) # "F"
        THEN respondError(403, "only female users can create FEMALE_ONLY groups")
      ELSE IF capacity <= 0 \/ capacity > MaxCapacity
        THEN respondError(400, "capacity must be between 1 and 200")
      ELSE NoResp

\* The row INSERT INTO groups stores for a body
CreateTripRow(u, body) ==
  LET startNorm == normalizeCityName(body.start)
      destNorm == normalizeCityName(body.dest)
  IN  [capacity |-> CapacityOf(body.capacity),
       preference |-> PreferenceOf(body.preference),
       created_by |-> u, start |-> startNorm, dest |-> destNorm,
       stops |-> JoinStops(CleanStops(body.stops, toLowerCase(startNorm),
                                      toLowerCase(destNorm), {})),
       departure_date |-> body.departure]

\* Both, tabulated once for the bodies tried
CreateTripChecked ==
  [u \in Users, body \in TripBodies |->
     [err |-> CreateTripError(u, body), row |-> CreateTripRow(u, body)]]

\* Validation, BEGIN and INSERT INTO groups ... RETURNING *
CreateTrip(p, u, body) ==
  /\ pc[p] = "idle"
  /\ LET c == CreateTripChecked[u, body]
     IN IF c.err # NoResp
        THEN /\ Respond(p, c.err)
             /\ UNCHANGED <<groups, members, gidSeq, lock, tx>>
        ELSE /\ gidSeq < MaxGroups
             /\ gidSeq' = gidSeq + 1
             /\ tx' = [tx EXCEPT ![p] = <<Write("insG", gidSeq + 1, u, c.row)>>]
             /\ pc' = [pc EXCEPT ![p] = "c_member"]
             /\ rq' = [rq EXCEPT ![p] = [op |-> "create", uid |-> u, gid |-> gidSeq + 1,
                                         auto_join_creator |-> body.auto_join_creator]]
             /\ gq' = [gq EXCEPT ![p] = c.row]
             /\ resp' = [resp EXCEPT ![p] = NoResp]
             /\ UNCHANGED <<groups, members, lock>>

\* if (auto_join_creator) INSERT INTO group_members ... ON CONFLICT DO NOTHING
CreateTripJoin(p) ==
  /\ pc[p] = "c_member"
  /\ tx' = [tx EXCEPT ![p] = IF rq[p].auto_join_creator
                               THEN Append(@, Write("insM", rq[p].gid, rq[p].uid, NoRow))
                               ELSE @]
  /\ pc' = [pc EXCEPT ![p] = "c_commit"]
  /\ UNCHANGED <<groups, members, gidSeq, lock, rq, gq, resp>>

\* COMMIT
CreateTripCommit(p) ==
  /\ pc[p] = "c_commit"
  /\ Commit(p)
  /\ pc' = [pc EXCEPT ![p] = "c_format"]
  /\ UNCHANGED <<gidSeq, rq, gq, resp>>

\* formatGroupByRow(g, creator_uid) on the returned row, then ok(..)
CreateTripFormat(p) ==
  /\ pc[p] = "c_format"
  /\ Respond(p, ok("group", SeatsLeft(gq[p], members, rq[p].gid)))
  /\ UNCHANGED <<groups, members, gidSeq, lock, tx>>

\* --------------------------------------------------------- POST /join-group
\* The checks of join-group in their order: NoResp when the join is allowed
\* (mutant: no creator check)
JoinDenialCreatorMayJoin(row, m, g, u) ==
  IF row.preference = "FEMALE_ONLY" /\ GenderUpper(u) = "M"
    THEN respondError(403, "female-only group")
  ELSE IF CountMembers(m, g) >= row.capacity THEN respondError(400, "group full")
  ELSE IF IsMember(m, g, u) THEN respondError(400, "already a member")
  ELSE NoResp

\* (mutant: no capacity check)
JoinDenialNoCapacity(row, m, g, u) ==
  IF row.created_by = u THEN respondError(400, "creator cannot join own group")
  ELSE IF row.preference = "FEMALE_ONLY" /\ GenderUpper(u) = "M"
    THEN respondError(403, "female-only group")
  ELSE IF IsMember(m, g, u) THEN respondError(400, "already a member")
  ELSE NoResp

\* (mutant: no already-a-member check, the INSERT's ON CONFLICT DO NOTHING
\* swallows the repeat)
JoinDenialNoAlready(row, m, g, u) ==
  IF row.created_by = u THEN respondError(400, "creator cannot join own group")
  ELSE IF row.preference = "FEMALE_ONLY" /\ GenderUpper(u) = "M"
    THEN respondError(403, "female-only group")
  ELSE IF CountMembers(m, g) >= row.capacity THEN respondError(400, "group full")
  ELSE NoResp

\* (mutant: no FEMALE_ONLY check)
JoinDenialNoPreference(row, m, g, u) ==
  IF row.created_by = u THEN respondError(400, "creator cannot join own group")
  ELSE IF CountMembers(m, g) >= row.capacity THEN respondError(400, "group full")
  ELSE IF IsMember(m, g, u) THEN respondError(400, "already a member")
  ELSE NoResp

\* (mutant: the already-a-member check comes before the capacity check)
JoinDenialAlreadyBeforeFull(row, m, g, u) ==
  IF row.created_by = u THEN respondError(400, "creator cannot join own group")
  ELSE IF row.preference = "FEMALE_ONLY" /\ GenderUpper(u) = "M"
    THEN respondError(403, "female-only group")
  ELSE IF IsMember(m, g, u) THEN respondError(400, "already a member")
  ELSE IF CountMembers(m, g) >= row.capacity THEN respondError(400, "group full")
  ELSE NoResp

JoinDenial(row, m, g, u) ==
  IF row.created_by = u THEN respondError(400, "creator cannot join own group")
  ELSE IF row.preference = "FEMALE_ONLY" /\ GenderUpper(u) = "M"
    THEN respondError(403, "female-only group")
  ELSE IF CountMembers(m, g) >= row.capacity THEN respondError(400, "group full")
  ELSE IF IsMember(m, g, u) THEN respondError(400, "already a member")
  ELSE NoResp

\* A request with a gid: safeInt(gid) of 0 or NaN is refused at once, else BEGIN
StartWithGid(p, opName, u, g) ==
  /\ pc[p] = "idle"
  /\ IF g = 0
     THEN /\ Respond(p, respondError(400, "invalid gid"))
          /\ UNCHANGED <<groups, members, gidSeq, lock, tx>>
     ELSE /\ pc' = [pc EXCEPT ![p] = "lock"]
          /\ rq' = [rq EXCEPT ![p] = [op |-> opName, uid |-> u, gid |-> g,
                                      auto_join_creator |-> FALSE]]
          /\ resp' = [resp EXCEPT ![p] = NoResp]
          /\ UNCHANGED <<groups, members, gidSeq, lock, tx, gq>>

JoinGroup(p, u, g) == StartWithGid(p, "join", u, g)
LeaveGroup(p, u, g) == StartWithGid(p, "leave", u, g)
DeleteGroup(p, u, g) == StartWithGid(p, "delete", u, g)

\* (mutant: SELECT ... FROM groups WHERE gid=$1, which neither waits nor locks)
SelectPlain(p) ==
  /\ pc[p] = "lock"
  /\ LET g == rq[p].gid
     IN IF g \notin DOMAIN groups
        THEN Decline(p, respondError(404, "group not found"))
        ELSE /\ gq' = [gq EXCEPT ![p] = groups[g]]
             /\ pc' = [pc EXCEPT ![p] = "check"]
             /\ UNCHANGED <<groups, members, gidSeq, lock, rq, tx, resp>>

\* SELECT ... FROM groups WHERE gid=$1 FOR UPDATE, the same in the three handlers
SelectForUpdate(p) ==
  /\ pc[p] = "lock"
  /\ LET g == rq[p].gid
     IN IF g \notin DOMAIN groups
        THEN Decline(p, respondError(404, "group not found"))
        ELSE /\ LockFree(g)
             /\ lock' = [lock EXCEPT ![g] = p]
             /\ gq' = [gq EXCEPT ![p] = groups[g]]
             /\ pc' = [pc EXCEPT ![p] = "check"]
             /\ UNCHANGED <<groups, members, gidSeq, rq, tx, resp>>

\* creator / FEMALE_ONLY / capacity / already-a-member, then the INSERT
JoinCheck(p) ==
  /\ pc[p] = "check" /\ rq[p].op = "join"
  /\ LET d == JoinDenial(gq[p], View(p).m, rq[p].gid, rq[p].uid)
     IN IF d # NoResp
        THEN Decline(p, d)
        ELSE /\ tx' = [tx EXCEPT ![p] =
                         Append(@, Write("insM", rq[p].gid, rq[p].uid, NoRow))]
             /\ pc' = [pc EXCEPT ![p] = "commit"]
             /\ UNCHANGED <<groups, members, gidSeq, lock, rq, gq, resp>>

\* COMMIT of join-group and leave-group
CommitMembership(p) ==
  /\ pc[p] = "commit" /\ rq[p].op \in {"join", "leave"}
  /\ Commit(p)
  /\ pc' = [pc EXCEPT ![p] = "format"]
  /\ UNCHANGED <<gidSeq, rq, gq, resp>>

\* SELECT * FROM groups WHERE gid=$1; formatGroupByRow(g2.rows[0], uid):
\* with no row left, row.gid throws and the catch answers 500
JoinFormat(p) ==
  /\ pc[p] = "format" /\ rq[p].op = "join"
  /\ LET g == rq[p].gid
     IN IF g \in DOMAIN groups
        THEN Respond(p, ok("group", SeatsLeft(groups[g], members, g)))
        ELSE Respond(p, respondError(500, "server error"))
  /\ UNCHANGED <<groups, members, gidSeq, lock, tx>>

\* -------------------------------------------------------- POST /leave-group
\* The checks of leave-group: the creator is refused, a non-member is answered
\* ok at once, a member goes on to the DELETE
\* (mutant: a non-member is an error)
LeaveDecisionStrict(row, m, g, u) ==
  IF row.created_by = u THEN respondError(400, "creator must delete group")
  ELSE IF ~IsMember(m, g, u) THEN respondError(400, "not a member")
  ELSE NoResp

\* (mutant: the creator may leave)
LeaveDecisionCreatorMayLeave(row, m, g, u) ==
  IF ~IsMember(m, g, u) THEN ok("left", -1) ELSE NoResp

LeaveDecision(row, m, g, u) ==
  IF row.created_by = u THEN respondError(400, "creator must delete group")
  ELSE IF ~IsMember(m, g, u) THEN ok("left", -1)
  ELSE NoResp

LeaveCheck(p) ==
  /\ pc[p] = "check" /\ rq[p].op = "leave"
  /\ LET d == LeaveDecision(gq[p], View(p).m, rq[p].gid, rq[p].uid)
     IN IF d # NoResp
        THEN Decline(p, d)
        ELSE /\ tx' = [tx EXCEPT ![p] =
                         Append(@, Write("delM", rq[p].gid, rq[p].uid, NoRow))]
             /\ pc' = [pc EXCEPT ![p] = "commit"]
             /\ UNCHANGED <<groups, members, gidSeq, lock, rq, gq, resp>>

\* the optional formatted group after the COMMIT
LeaveFormat(p) ==
  /\ pc[p] = "format" /\ rq[p].op = "leave"
  /\ LET g == rq[p].gid
     IN IF g \in DOMAIN groups
        THEN Respond(p, ok("left", SeatsLeft(groups[g], members, g)))
        ELSE Respond(p, ok("left", -1))
  /\ UNCHANGED <<groups, members, gidSeq, lock, tx>>

\* ------------------------------------------------------ DELETE /groups/:gid
\* (mutant: anyone may delete)
DeleteDenialNone(row, u) == NoResp

DeleteDenial(row, u) ==
  IF row.created_by # u THEN respondError(403, "only creator can delete") ELSE NoResp

\* (mutant: the membership rows are deleted outside the transaction, before
\* the creator check)
DeleteMembersUnchecked(p) ==
  /\ pc[p] = "check" /\ rq[p].op = "delete"
  /\ members' = DeleteMembersOf(members, rq[p].gid)
  /\ LET d == DeleteDenial(gq[p], rq[p].uid)
     IN IF d # NoResp
        THEN /\ resp' = [resp EXCEPT ![p] = d]
             /\ pc' = [pc EXCEPT ![p] = "rollback"]
             /\ UNCHANGED <<groups, gidSeq, lock, rq, gq, tx>>
        ELSE /\ pc' = [pc EXCEPT ![p] = "delgroup"]
             /\ UNCHANGED <<groups, gidSeq, lock, rq, gq, resp, tx>>

\* (mutant: the membership rows are not deleted)
DeleteMembersSkipped(p) ==
  /\ pc[p] = "check" /\ rq[p].op = "delete"
  /\ LET d == DeleteDenial(gq[p], rq[p].uid)
     IN IF d # NoResp
        THEN Decline(p, d)
        ELSE /\ pc' = [pc EXCEPT ![p] = "delgroup"]
             /\ UNCHANGED <<groups, members, gidSeq, lock, rq, gq, resp, tx>>

\* (mutant: the DELETE of the membership rows is committed on its own)
DeleteMembersAutocommit(p) ==
  /\ pc[p] = "check" /\ rq[p].op = "delete"
  /\ LET d == DeleteDenial(gq[p], rq[p].uid)
     IN IF d # NoResp
        THEN Decline(p, d)
        ELSE /\ members' = DeleteMembersOf(members, rq[p].gid)
             /\ pc' = [pc EXCEPT ![p] = "delgroup"]
             /\ UNCHANGED <<groups, gidSeq, lock, rq, gq, resp, tx>>

\* creator check, then DELETE FROM group_members WHERE gid=$1
DeleteMembers(p) ==
  /\ pc[p] = "check" /\ rq[p].op = "delete"
  /\ LET d == DeleteDenial(gq[p], rq[p].uid)
     IN IF d # NoResp
        THEN Decline(p, d)
        ELSE /\ tx' = [tx EXCEPT ![p] = Append(@, Write("delMg", rq[p].gid, 0, NoRow))]
             /\ pc' = [pc EXCEPT ![p] = "delgroup"]
             /\ UNCHANGED <<groups, members, gidSeq, lock, rq, gq, resp>>

\* DELETE FROM groups WHERE gid=$1; group_members.gid REFERENCES groups(gid):
\* a membership row still there makes the statement fail, and the catch
\* rolls back and answers 500
DeleteGroupStmt(p) ==
  /\ pc[p] = "delgroup"
  /\ IF CountMembers(View(p).m, rq[p].gid) > 0
     THEN Decline(p, respondError(500, "server error"))
     ELSE /\ tx' = [tx EXCEPT ![p] = Append(@, Write("delG", rq[p].gid, 0, NoRow))]
          /\ pc' = [pc EXCEPT ![p] = "delcommit"]
          /\ UNCHANGED <<groups, members, gidSeq, lock, rq, gq, resp>>

\* COMMIT; ok(res, { deleted: true })
DeleteCommit(p) ==
  /\ pc[p] = "delcommit"
  /\ Commit(p)
  /\ Respond(p, ok("deleted", -1))
  /\ UNCHANGED gidSeq

\* ------------------------------------------------------------ storage errors
\* (mutant: the statements are not in a transaction, what was written stays)
StorageErrorKeepsWrites(p) ==
  /\ pc[p] # "idle"
  /\ Commit(p)
  /\ Respond(p, respondError(500, IF rq[p].op = "create" THEN "could not create group"
                                                          ELSE "server error"))
  /\ UNCHANGED gidSeq

\* A statement of an open request throws: catch { ROLLBACK; respondError(500) }
StorageError(p) ==
  /\ pc[p] # "idle"
  /\ Rollback(p)
  /\ Respond(p, respondError(500, IF rq[p].op = "create" THEN "could not create group"
                                                          ELSE "server error"))
  /\ UNCHANGED gidSeq

\* ------------------------------------------------------ POST /search-groups
\* Times are milliseconds
MinuteMs == 60000
DayMs == 86400000
DefaultWindowMins == 60
CandidateLimit == 500

\* ARRAY[g.start] || regexp_split_to_array(g.stops, '\|') || ARRAY[g.dest]
Waypoints(row) ==
  <<row.start>> \o (IF row.stops = <<>> THEN <<>> ELSE SplitStops(row.stops, <<>>))
               \o <<row.dest>>

\* array_position(arr, x): the first index whose element equals x, NULL (0) if none
array_position(arr, x) ==
  IF \E i \in DOMAIN arr : arr[i] = x
  THEN CHOOSE i \in DOMAIN arr : arr[i] = x /\ \A j \in 1..(i - 1) : arr[j] # x
  ELSE 0

\* A query: start and dest <<>> when absent, preference "" when absent,
\* max_size 0 when absent, departure -1 when absent, time_window_mins 0 when absent
Query(start, dest, pref, maxSize, dep, scope, win) ==
  [start |-> start, dest |-> dest, preference |-> pref, max_size |-> maxSize,
   departure |-> dep, scope |-> scope, time_window_mins |-> win]

\* startTermRaw ? normalizeCityName(startTermRaw) : null
TermOf(raw) == IF raw = <<>> THEN <<>> ELSE normalizeCityName(raw)

\* the WHERE clause of the candidate query
PreferenceStage(row, q) ==
  q.preference # "" /\ validatePreference(q.preference) => row.preference = q.preference
\* (mutant: a group of exactly max_size is dropped too)
CapacityStageAbove(row, q) == q.max_size # 0 => row.capacity > q.max_size
\* safeInt(max_size, null) ? capacity >= max_size : no condition
CapacityStage(row, q) == q.max_size # 0 => row.capacity >= q.max_size

\* ORDER BY departure_date NULLS LAST, gid DESC (LIMIT 500 is applied after it)
CandidateBefore(gs, g, h) ==
  LET dg == gs[g].departure_date
      dh == gs[h].departure_date
  IN  IF dg = dh THEN g > h
      ELSE IF dg = -1 THEN FALSE
      ELSE IF dh = -1 THEN TRUE
      ELSE dg < dh

RECURSIVE OrderCandidates(_, _)
OrderCandidates(gs, S) ==
  IF S = {} THEN <<>>
  ELSE LET first == CHOOSE g \in S : \A h \in S \ {g} : CandidateBefore(gs, g, h)
       IN  <<first>> \o OrderCandidates(gs, S \ {first})

\* (mutant: FEMALE_ONLY groups are shown to female viewers only)
HidesFemaleOnlyUnlessFemale(viewer) == viewer = 0 \/ GenderUpper(viewer) # "F"
\* if (viewerGender === "M"): a viewer (0: none) from whom FEMALE_ONLY is hidden
HidesFemaleOnly(viewer) == viewer # 0 /\ GenderUpper(viewer) = "M"

VisibilityStage(row, viewer) ==
  HidesFemaleOnly(viewer) => row.preference # "FEMALE_ONLY"

\* (mutant: both terms must be on the route, in any order)
RouteStageUnordered(row, q) ==
  LET startTerm == TermOf(q.start)
      destTerm == TermOf(q.dest)
      posStart == array_position(Waypoints(row), startTerm)
      posDest == array_position(Waypoints(row), destTerm)
  IN  IF startTerm = <<>> /\ destTerm = <<>> THEN TRUE
      ELSE IF startTerm # <<>> /\ destTerm # <<>> THEN posStart # 0 /\ posDest # 0
      ELSE IF startTerm # <<>> THEN posStart # 0
      ELSE posDest # 0

\* route order: start before dest when both are given
RouteStage(row, q) ==
  LET startTerm == TermOf(q.start)
      destTerm == TermOf(q.dest)
      posStart == array_position(Waypoints(row), startTerm)
      posDest == array_position(Waypoints(row), destTerm)
  IN  IF startTerm = <<>> /\ destTerm = <<>> THEN TRUE
      ELSE IF startTerm # <<>> /\ destTerm # <<>>
        THEN posStart # 0 /\ posDest # 0 /\ posStart < posDest
      ELSE IF startTerm # <<>> THEN posStart # 0
      ELSE posDest # 0

\* Number.isFinite(clientWin) && clientWin > 0 ? clientWin : 60
WindowMins(q) == IF q.time_window_mins > 0 THEN q.time_window_mins ELSE DefaultWindowMins

\* (mutant: the two ends of the window are left out)
TimeStageExclusive(row, q) ==
  IF q.departure = -1 THEN TRUE
  ELSE IF row.departure_date = -1 THEN FALSE
  ELSE IF q.scope = "day"
    THEN LET dayStart == (q.departure \div DayMs) * DayMs
             dayEnd == dayStart + DayMs - 1
         IN  ~(row.departure_date < dayStart \/ row.departure_date > dayEnd)
  ELSE LET windowMs == WindowMins(q) * MinuteMs
       IN  ~(row.departure_date <= q.departure - windowMs
             \/ row.departure_date >= q.departure + windowMs)

\* the day of the desired instant (server-local time taken as UTC) or the
\* window around it
TimeStage(row, q) ==
  IF q.departure = -1 THEN TRUE
  ELSE IF row.departure_date = -1 THEN FALSE
  ELSE IF q.scope = "day"
    THEN LET dayStart == (q.departure \div DayMs) * DayMs
             dayEnd == dayStart + DayMs - 1
         IN  ~(row.departure_date < dayStart \/ row.departure_date > dayEnd)
  ELSE LET windowMs == WindowMins(q) * MinuteMs
       IN  ~(row.departure_date < q.departure - windowMs
             \/ row.departure_date > q.departure + windowMs)

\* formatGroupByRow(row, viewer_uid), the fields used here
FormatGroup(gs, m, g, viewer) ==
  [gid |-> g, capacity |-> gs[g].capacity, preference |-> gs[g].preference,
   created_by |-> gs[g].created_by, departure_date |-> gs[g].departure_date,
   seats_left |-> SeatsLeft(gs[g], m, g),
   is_member |-> viewer # 0 /\ IsMember(m, g, viewer)]

\* The groups answered to a query, in their order
SearchResult(gs, m, viewer, q) ==
  LET ordered == OrderCandidates(gs,
                   {g \in DOMAIN gs : PreferenceStage(gs[g], q) /\ CapacityStage(gs[g], q)})
      candidates == SubSeq(ordered, 1, IF Len(ordered) > CandidateLimit
                                       THEN CandidateLimit ELSE Len(ordered))
      Visible(g) == VisibilityStage(gs[g], viewer)
      Matches(g) == RouteStage(gs[g], q) /\ TimeStage(gs[g], q)
      filtered == SelectSeq(SelectSeq(candidates, Visible), Matches)
  IN  [i \in DOMAIN filtered |-> FormatGroup(gs, m, filtered[i], viewer)]

\* One request is looked at: its viewer (0: none), its query and its answer
SearchGroups(viewer, q) ==
  /\ sq = NoSearch
  /\ sq' = [viewer |-> viewer, query |-> q]
  /\ found' = SearchResult(groups, members, viewer, q)
  /\ UNCHANGED <<groups, members, gidSeq, lock, pc, rq, gq, tx, resp, race,
                 connections, served, wrote, failed>>

\* The stored groups searched: rows as create-trip stores them
T0 == 10 * 60 * MinuteMs
SearchBodies ==
  { Body(r[1], r[2], r[3], c, pr, d, TRUE) :
      r \in {<<Patiala, NewDelhi, <<>>>>, <<Chandigarh, Patiala, <<Delhi, NewDelhi>>>>},
      c \in {1, 2}, pr \in {"", "FEMALE_ONLY"},
      d \in {-1, T0, T0 + 45 * MinuteMs} }

StoredRows ==
  { CreateTripRow(c[1], c[2]) :
      c \in {c \in {1, 2} \X SearchBodies : CreateTripError(c[1], c[2]) = NoResp} }

\* The terms tried for start and dest: none, the cities of the stored routes,
\* and a city in another case
RouteTerms == {<<>>, Patiala, Chandigarh, Delhi, NewDelhi, toLowerCase(Delhi)}

\* The times tried: none, the times of the stored groups with the default
\* window, a narrower window and the day scope, and instants that put a stored
\* group on the edge of the default window and one millisecond past it
SearchTimes ==
  {<<-1, "", 0>>, <<T0, "", 0>>, <<T0, "", 30>>, <<T0, "day", 0>>,
   <<T0 - 15 * MinuteMs, "", 0>>, <<T0 - 15 * MinuteMs - 1, "", 0>>,
   <<T0 + 105 * MinuteMs, "", 0>>, <<T0 + 50 * MinuteMs, "", 0>>}

SearchQueries ==
  { Query(s, d, pr, ms, t[1], t[2], t[3]) :
      s \in {<<>>, Patiala}, d \in {<<>>, Patiala},
      pr \in {"", "ALL", "FEMALE_ONLY"}, ms \in {0, 2}, t \in SearchTimes }
  \cup { Query(s, d, "", 0, -1, "", 0) : s \in RouteTerms, d \in RouteTerms }
  \cup { Query(<<>>, <<>>, "", ms, -1, "", 0) : ms \in {1, 3} }

\* ------------------------------------------------------- POST /connections
NumNodes == 4
MaxEdges == 4

\* The users of the connection graph
GraphUsers == 1..NumNodes

\* connections_undirected_unique ON (LEAST(u1, u2), GREATEST(u1, u2)):
\* (mutant: the index is on (u1, u2))
ConflictsOrdered(c, a, b) == <<a, b>> \in BagToSet(c)
Conflicts(c, a, b) == <<a, b>> \in BagToSet(c) \/ <<b, a>> \in BagToSet(c)

\* INSERT INTO connections (u1, u2) VALUES ($1, $2) ON CONFLICT DO NOTHING
\* RETURNING ...: other is 0 for a missing or non-numeric other_uid; u2
\* REFERENCES users(uid), so an unknown user makes the statement fail
Connect(uid, other) ==
  /\ IF other = 0 \/ other = uid
     THEN /\ served' = [kind |-> "connect", uid |-> uid, other |-> other,
                         code |-> 400, created |-> FALSE]
          /\ UNCHANGED connections
     ELSE IF other \notin GraphUsers
     THEN /\ served' = [kind |-> "connect", uid |-> uid, other |-> other,
                         code |-> 500, created |-> FALSE]
          /\ UNCHANGED connections
     ELSE IF Conflicts(connections, uid, other)
     THEN /\ served' = [kind |-> "connect", uid |-> uid, other |-> other,
                         code |-> 200, created |-> FALSE]
          /\ UNCHANGED connections
     ELSE /\ BagCardinality(connections) < MaxEdges
          /\ connections' = connections (+) SetToBag({<<uid, other>>})
          /\ served' = [kind |-> "connect", uid |-> uid, other |-> other,
                         code |-> 200, created |-> TRUE]
  /\ UNCHANGED <<groups, members, gidSeq, lock, pc, rq, gq, tx, resp, race, sq, found,
                 wrote, failed>>

\* ------------------------------------------- formatGroupByRow: mutual_friends
\* CASE WHEN c.u1 = b.uid THEN c.u2 ELSE c.u1 END over c.u1 = b.uid OR c.u2 = b.uid
\* (mutant: an edge is followed from u1 to u2 only)
NeighboursDirected(c, x) ==
  {r[2] : r \in {r \in BagToSet(c) : r[1] = x}}
Neighbours(c, x) ==
  {IF r[1] = x THEN r[2] ELSE r[1] : r \in {r \in BagToSet(c) : r[1] = x \/ r[2] = x}}

\* The recursive term of the query: the rows joined to the rows of the round
\* before, WHERE NOT (<neighbour> = ANY(path))
\* (mutant: no WHERE clause, a path may come back to a user on it)
ExpandRevisiting(c, frontier) ==
  UNION {{Append(path, n) : n \in Neighbours(c, path[Len(path)])} : path \in frontier}
Expand(c, frontier) ==
  UNION {{Append(path, n) : n \in Neighbours(c, path[Len(path)]) \ Range(path)}
           : path \in frontier}

\* WITH RECURSIVE bfs(uid, depth, path): the rows are the paths, depth is the
\* number of edges of a path; the recursion ends with a round that adds no row
RECURSIVE bfs(_, _)
bfs(c, frontier) ==
  IF frontier = {} THEN {}
  ELSE frontier \cup bfs(c, Expand(c, frontier))

\* degree_label
DegreeLabel(degree) ==
  IF degree = 1 THEN "1st" ELSE IF degree = 2 THEN "2nd" ELSE "3rd+"

\* (mutant: MAX(b.depth))
DegreeOfLongest(depths) == CHOOSE d \in depths : \A e \in depths : e <= d
\* MIN(b.depth) AS degree
DegreeOf(depths) == CHOOSE d \in depths : \A e \in depths : d <= e

\* (mutant: every member but the viewer is listed, with degree 0 when no path
\* was found)
MutualFriendsOuter(c, viewer_uid, memberUids) ==
  IF viewer_uid = 0 \/ memberUids = {} THEN {}
  ELSE LET targetUids == memberUids \ {viewer_uid}
           rows == bfs(c, {<<viewer_uid>>})
           Depths(t) == {Len(path) - 1 :
                           path \in {r \in rows : Len(r) - 1 > 0 /\ r[Len(r)] = t}}
       IN  {[uid |-> t,
             degree |-> IF Depths(t) = {} THEN 0 ELSE DegreeOf(Depths(t)),
             degree_label |-> IF Depths(t) = {} THEN "" ELSE DegreeLabel(DegreeOf(Depths(t)))]
              : t \in targetUids}

\* The mutual_friends of a viewer (0: none) and the members of a group: the
\* members but the viewer that the search from the viewer reaches at depth > 0
MutualFriends(c, viewer_uid, memberUids) ==
  IF viewer_uid = 0 \/ memberUids = {} THEN {}
  ELSE LET targetUids == memberUids \ {viewer_uid}
           rows == bfs(c, {<<viewer_uid>>})
           Depths(t) == {Len(path) - 1 :
                           path \in {r \in rows : Len(r) - 1 > 0 /\ r[Len(r)] = t}}
       IN  {[uid |-> t, degree |-> DegreeOf(Depths(t)),
             degree_label |-> DegreeLabel(DegreeOf(Depths(t)))]
              : t \in {t \in targetUids : Depths(t) # {}}}

\* user_connection_degree(a, b) of schema.sql: SELECT MIN(depth) FROM bfs
\* WHERE node = b, NULL (NoDegree) when no row ends at b
NoDegree == -1

\* (mutant: SELECT MAX(depth))
user_connection_degree_max(c, a, b) ==
  LET depths == {Len(r) - 1 : r \in {r \in bfs(c, {<<a>>}) : r[Len(r)] = b}}
  IN  IF depths = {} THEN NoDegree ELSE DegreeOfLongest(depths)
user_connection_degree(c, a, b) ==
  LET depths == {Len(r) - 1 : r \in {r \in bfs(c, {<<a>>}) : r[Len(r)] = b}}
  IN  IF depths = {} THEN NoDegree ELSE DegreeOf(depths)

\* SELECT user_connection_degree(a, b); one answer is looked at between two
\* connects
UserConnectionDegree(a, b) ==
  /\ served.kind \notin {"mutuals", "degree"}
  /\ served' = [kind |-> "degree", a |-> a, b |-> b,
                degree |-> user_connection_degree(connections, a, b)]
  /\ UNCHANGED <<groups, members, gidSeq, lock, pc, rq, gq, tx, resp, race, sq, found,
                 connections, wrote, failed>>

\* formatGroupByRow for a viewer and a group with the given members; one
\* answer is looked at between two connects
FormatMutuals(viewer_uid, memberUids) ==
  /\ served.kind \notin {"mutuals", "degree"}
  /\ served' = [kind |-> "mutuals", viewer |-> viewer_uid, members |-> memberUids,
                mutual_friends |-> MutualFriends(connections, viewer_uid, memberUids)]
  /\ UNCHANGED <<groups, members, gidSeq, lock, pc, rq, gq, tx, resp, race, sq, found,
                 connections, wrote, failed>>

GraphNext ==
  \/ \E uid \in GraphUsers, other \in 0..(NumNodes + 1) : Connect(uid, other)
  \/ \E viewer_uid \in 0..NumNodes, memberUids \in SUBSET GraphUsers :
        FormatMutuals(viewer_uid, memberUids)
  \/ \E a \in GraphUsers, b \in GraphUsers : UserConnectionDegree(a, b)

SpecGraph == Init /\ [][GraphNext]_vars

\* --------------------------------------------------- watching a capacity race
\* The user may join as far as the creator and FEMALE_ONLY rules go
Eligible(row, u) ==
  /\ row.created_by # u
  /\ row.preference = "FEMALE_ONLY" => UserGender(u) = "F"

\* Handler p issues join(u, g) while q, the only other open request, waits to
\* join the same group as another user; the group has one seat, no member and
\* nobody holds its row
RaceBegins(p, q, u, g) ==
  /\ q # p /\ g \in DOMAIN groups
  /\ pc[q] = "lock" /\ rq[q].op = "join" /\ rq[q].gid = g /\ rq[q].uid # u
  /\ \A r \in Procs \ {p, q} : pc[r] = "idle"
  /\ groups[g].capacity = 1 /\ CountMembers(members, g) = 0 /\ lock[g] = 0
  /\ Eligible(groups[g], u) /\ Eligible(groups[g], rq[q].uid)

\* Whether the step changes a committed table is noted for the request of p
Notes(p) ==
  wrote' = [wrote EXCEPT ![p] = @ \/ groups' # groups \/ members' # members
                                    \/ connections' # connections]

\* A step of p that is part of its open request
Observe(p) ==
  /\ race' = IF race # <<>> /\ p \notin {race[1], race[2]} THEN <<>> ELSE race
  /\ UNCHANGED <<sq, found, connections, served>>
  /\ Notes(p)
  /\ failed' = 0

\* p issues a request other than a racing join: the watch ends
ObserveOther(p) ==
  /\ race' = <<>>
  /\ UNCHANGED <<sq, found, connections, served>>
  /\ wrote' = [wrote EXCEPT ![p] = FALSE]
  /\ failed' = 0

\* the request of p fails on the storage: the watch ends; a delete that had
\* removed the membership rows and not yet the group is noted until the next
\* step
ObserveFailure(p) ==
  /\ race' = <<>>
  /\ UNCHANGED <<sq, found, connections, served>>
  /\ Notes(p)
  /\ failed' = IF rq[p].op = "delete" /\ pc[p] = "delgroup" THEN rq[p].gid ELSE 0

ObserveJoin(p, u, g) ==
  /\ race' = IF \E q \in Procs : RaceBegins(p, q, u, g)
             THEN <<CHOOSE q \in Procs : RaceBegins(p, q, u, g), p>>
             ELSE <<>>
  /\ UNCHANGED <<sq, found, connections, served>>
  /\ wrote' = [wrote EXCEPT ![p] = FALSE]
  /\ failed' = 0

Next ==
  \/ \E p \in Procs, u \in Users, body \in TripBodies :
        CreateTrip(p, u, body) /\ ObserveOther(p)
  \/ \E p \in Procs : CreateTripJoin(p) /\ Observe(p)
  \/ \E p \in Procs : CreateTripCommit(p) /\ Observe(p)
  \/ \E p \in Procs : CreateTripFormat(p) /\ Observe(p)
  \/ \E p \in Procs, u \in Users, g \in 0..MaxGroups :
        JoinGroup(p, u, g) /\ ObserveJoin(p, u, g)
  \/ \E p \in Procs, u \in Users, g \in 0..MaxGroups :
        LeaveGroup(p, u, g) /\ ObserveOther(p)
  \/ \E p \in Procs, u \in Users, g \in 0..MaxGroups :
        DeleteGroup(p, u, g) /\ ObserveOther(p)
  \/ \E p \in Procs : SelectForUpdate(p) /\ Observe(p)
  \/ \E p \in Procs : JoinCheck(p) /\ Observe(p)
  \/ \E p \in Procs : CommitMembership(p) /\ Observe(p)
  \/ \E p \in Procs : JoinFormat(p) /\ Observe(p)
  \/ \E p \in Procs : LeaveCheck(p) /\ Observe(p)
  \/ \E p \in Procs : LeaveFormat(p) /\ Observe(p)
  \/ \E p \in Procs : DeleteMembers(p) /\ Observe(p)
  \/ \E p \in Procs : DeleteGroupStmt(p) /\ Observe(p)
  \/ \E p \in Procs : DeleteCommit(p) /\ Observe(p)
  \/ \E p \in Procs : RollbackAndRespond(p) /\ Observe(p)
  \/ \E p \in Procs : StorageError(p) /\ ObserveFailure(p)

Spec == Init /\ [][Next]_vars

\* Search over a stored table: two groups as create-trip commits them, each
\* with its creator joined
SearchInit ==
  /\ \E r1 \in StoredRows, r2 \in {r \in StoredRows : r.capacity = 2 /\ r.created_by = 1} :
       /\ groups = <<r1, r2>>
       /\ members = SetToBag({<<1, r1.created_by>>, <<2, r2.created_by>>})
  /\ gidSeq = 2
  /\ lock = [g \in Gids |-> 0]
  /\ pc = [p \in Procs |-> "idle"]
  /\ rq = [p \in Procs |-> NoReq]
  /\ gq = [p \in Procs |-> NoRow]
  /\ tx = [p \in Procs |-> <<>>]
  /\ resp = [p \in Procs |-> NoResp]
  /\ race = <<>>
  /\ sq = NoSearch
  /\ found = <<>>
  /\ connections = EmptyBag
  /\ served = NoServed
  /\ wrote = [p \in Procs |-> FALSE]
  /\ failed = 0

SearchNext ==
  \E viewer \in 0..NumUsers, q \in SearchQueries : SearchGroups(viewer, q)

SpecSearch == SearchInit /\ [][SearchNext]_vars

TypeOK ==
  /\ DOMAIN groups \subseteq Gids
  /\ gidSeq \in 0..MaxGroups
  /\ \A p \in Procs :
       pc[p] \in {"check", "commit", "delgroup", "delcommit"}
       \/ (pc[p] = "rollback" /\ resp[p] # respondError(404, "group not found")) =>
         /\ lock[rq[p].gid] = p
         /\ rq[p].gid \in DOMAIN groups
         /\ gq[p] = groups[rq[p].gid]

\* ----------------------------------------------------------------- C1
\* C1: two joins by different eligible users, open at the same time on a group
\* with capacity 1 and no member, and left alone by everything else, end with
\* one success and one "group full"; never with two successes.
RaceOver == race # <<>> /\ pc[race[1]] = "idle" /\ pc[race[2]] = "idle"

CapacityRace ==
  RaceOver =>
    \E w \in {race[1], race[2]} :
      /\ resp[w] = ok("group", 0)
      /\ \A l \in {race[1], race[2]} \ {w} : resp[l] = respondError(400, "group full")

CapacityRaceWitness ==
  /\ RaceOver
  /\ resp[race[1]] = respondError(400, "group full")
  /\ resp[race[2]] = ok("group", 0)

\* ----------------------------------------------------------------- C2
\* C2: in every reachable state no group has more membership rows than its
\* capacity.
NeverOverbooked ==
  \A g \in DOMAIN groups : CountMembers(members, g) <= groups[g].capacity

\* a full group that a second handler is still trying to join
NeverOverbookedWitness ==
  \E g \in DOMAIN groups, p \in Procs :
    /\ CountMembers(members, g) = groups[g].capacity
    /\ groups[g].capacity = 2
    /\ ~IsMember(members, g, groups[g].created_by)
    /\ pc[p] = "lock" /\ rq[p].op = "join" /\ rq[p].gid = g

\* ------------------------------------------------------ the membership gate
\* Handler p of the given operation holds the row lock of its group and has
\* taken its decision: it is about to roll back with its answer, or to commit
Decided(p, opName) ==
  /\ rq[p].op = opName
  /\ pc[p] \in {"commit", "delgroup", "delcommit"}
     \/ (pc[p] = "rollback" /\ resp[p] # respondError(404, "group not found"))

\* Its decision is to answer r, with nothing written
Declines(p, r) ==
  pc[p] = "rollback" /\ resp[p] = r /\ tx[p] = <<>>

Unique(m) == \A r \in BagToSet(m) : CopiesIn(r, m) = 1

\* ----------------------------------------------------------------- C3
\* C3: a join by the creator of the group is answered "creator cannot join own
\* group" whatever the capacity, the member count and the preference, and adds
\* no membership row.
CreatorJoinDenied ==
  \A p \in Procs :
    Decided(p, "join") /\ groups[rq[p].gid].created_by = rq[p].uid
      => Declines(p, respondError(400, "creator cannot join own group"))

\* the creator is refused on a group with a free seat that they are no member of
CreatorJoinDeniedWitness ==
  \E p \in Procs :
    /\ Decided(p, "join") /\ groups[rq[p].gid].created_by = rq[p].uid
    /\ CountMembers(members, rq[p].gid) < groups[rq[p].gid].capacity
    /\ ~IsMember(members, rq[p].gid, rq[p].uid)

\* ----------------------------------------------------------------- C4
\* C4 as claimed: a join by a user who holds a membership row of the group is
\* answered "already a member", and no (group, user) pair has two rows.
MemberJoinAlreadyMember ==
  /\ \A p \in Procs :
       Decided(p, "join") /\ IsMember(members, rq[p].gid, rq[p].uid)
         => Declines(p, respondError(400, "already a member"))
  /\ Unique(members)

\* C4 as amended: such a join is refused, never accepted, with the first reason
\* that applies in the order creator, FEMALE_ONLY, full, already a member; and
\* no (group, user) pair has two rows.
MemberJoinDenied ==
  /\ \A p \in Procs :
       Decided(p, "join") /\ IsMember(members, rq[p].gid, rq[p].uid)
         => LET g == rq[p].gid
                u == rq[p].uid
            IN Declines(p,
                 IF groups[g].created_by = u
                   THEN respondError(400, "creator cannot join own group")
                 ELSE IF groups[g].preference = "FEMALE_ONLY" /\ UserGender(u) = "M"
                   THEN respondError(403, "female-only group")
                 ELSE IF CountMembers(members, g) >= groups[g].capacity
                   THEN respondError(400, "group full")
                 ELSE respondError(400, "already a member"))
  /\ Unique(members)

\* a member of a group with a free seat is answered "already a member"
MemberJoinDeniedWitness ==
  \E p \in Procs :
    /\ Decided(p, "join") /\ IsMember(members, rq[p].gid, rq[p].uid)
    /\ resp[p] = respondError(400, "already a member")

\* ----------------------------------------------------------------- C5
\* C5: a join of a FEMALE_ONLY group by a user whose gender is not F, male or
\* unspecified, is answered "female-only group" and adds no membership row.
NonFemaleJoinBlocked ==
  \A p \in Procs :
    /\ Decided(p, "join")
    /\ groups[rq[p].gid].preference = "FEMALE_ONLY"
    /\ UserGender(rq[p].uid) # "F"
    => Declines(p, respondError(403, "female-only group"))

\* ----------------------------------------------------------------- C6
\* C6: leave by a user who is neither the creator nor a member of an existing
\* group answers { left: true } and writes nothing; and a leave that commits
\* removes exactly the user's row, so a further leave is such a no-op.
IdempotentLeave ==
  \A p \in Procs :
    Decided(p, "leave") /\ groups[rq[p].gid].created_by # rq[p].uid
      => IF IsMember(members, rq[p].gid, rq[p].uid)
         THEN /\ pc[p] = "commit"
              /\ View(p).g = groups
              /\ View(p).m = DeleteMember(members, rq[p].gid, rq[p].uid)
              /\ ~IsMember(View(p).m, rq[p].gid, rq[p].uid)
         ELSE Declines(p, ok("left", -1))

\* a non-member is answered { left: true } on a group that has a member
IdempotentLeaveWitness ==
  \E p \in Procs :
    /\ Decided(p, "leave") /\ resp[p] = ok("left", -1)
    /\ CountMembers(members, rq[p].gid) > 0

\* ----------------------------------------------------------------- C7
\* C7: leave by the creator of the group is answered "creator must delete
\* group", with or without a membership row of the creator, and removes no row.
CreatorLeaveDenied ==
  \A p \in Procs :
    Decided(p, "leave") /\ groups[rq[p].gid].created_by = rq[p].uid
      => Declines(p, respondError(400, "creator must delete group"))

\* a creator who is a member of their own group is refused
CreatorLeaveDeniedWitness ==
  \E p \in Procs :
    /\ Decided(p, "leave") /\ groups[rq[p].gid].created_by = rq[p].uid
    /\ IsMember(members, rq[p].gid, rq[p].uid)

\* ----------------------------------------------------------------- C8
\* C8: delete by anyone but the creator, members included, is answered "only
\* creator can delete" with nothing written, and the group and its membership
\* rows stay; only the creator's delete goes on to remove rows.
NonCreatorDeleteDenied ==
  \A p \in Procs :
    Decided(p, "delete") /\ groups[rq[p].gid].created_by # rq[p].uid
      => Declines(p, respondError(403, "only creator can delete"))

\* a member who is not the creator is refused
NonCreatorDeleteDeniedWitness ==
  \E p \in Procs :
    /\ Decided(p, "delete") /\ groups[rq[p].gid].created_by # rq[p].uid
    /\ IsMember(members, rq[p].gid, rq[p].uid)

\* ----------------------------------------------------------------- C9
\* C9: a delete about to commit has removed the membership rows of the group
\* and then the group row, in that order, and its commit leaves neither; in
\* every committed state each membership row belongs to a group that exists.
NoOrphans(gs, m) == \A r \in BagToSet(m) : r[1] \in DOMAIN gs

DeleteRemovesAll ==
  /\ \A p \in Procs :
       pc[p] = "delcommit"
         => /\ tx[p] = <<Write("delMg", rq[p].gid, 0, NoRow),
                          Write("delG", rq[p].gid, 0, NoRow)>>
            /\ rq[p].gid \notin DOMAIN View(p).g
            /\ CountMembers(View(p).m, rq[p].gid) = 0
            /\ NoOrphans(View(p).g, View(p).m)
  /\ NoOrphans(groups, members)

\* the delete of a group with a member besides its creator is about to commit
DeleteRemovesAllWitness ==
  \E p \in Procs :
    /\ pc[p] = "delcommit"
    /\ CountMembers(members, rq[p].gid) = 2

\* ----------------------------------------------------------------- C10
\* C10: what a male viewer is answered holds no FEMALE_ONLY group; what a
\* female viewer, a viewer of unspecified gender or nobody is answered holds
\* every FEMALE_ONLY group that passes the other filters of the query.
Found == {found[i].gid : i \in DOMAIN found}

PassesOtherFilters(g, q) ==
  /\ PreferenceStage(groups[g], q) /\ CapacityStage(groups[g], q)
  /\ RouteStage(groups[g], q) /\ TimeStage(groups[g], q)

FemaleOnlyVisibility ==
  sq # NoSearch =>
    IF sq.viewer # 0 /\ UserGender(sq.viewer) = "M"
    THEN \A i \in DOMAIN found : found[i].preference # "FEMALE_ONLY"
    ELSE \A g \in DOMAIN groups :
           groups[g].preference = "FEMALE_ONLY" /\ PassesOtherFilters(g, sq.query)
             => g \in Found

\* a male viewer is answered one group of two that pass the other filters
FemaleOnlyVisibilityWitness ==
  /\ sq # NoSearch /\ sq.viewer # 0 /\ UserGender(sq.viewer) = "M"
  /\ sq.query.start # <<>> /\ sq.query.departure # -1
  /\ \A g \in DOMAIN groups : PassesOtherFilters(g, sq.query)
  /\ groups[1].preference = "FEMALE_ONLY"
  /\ Found = {2}

\* ----------------------------------------------------------------- C11
\* C11: with a start term and a dest term, a group that passes the other
\* stages is answered iff both terms are waypoints of [start] ++ stops ++ [dest]
\* and the first position of the start term is smaller than the first position
\* of the dest term; on the route Chandigarh, [Delhi, New Delhi], Patiala the
\* query Delhi -> Chandigarh is rejected and Chandigarh -> Patiala accepted.
RouteABCD == <<Chandigarh, Delhi, NewDelhi, Patiala>>

RouteOrder ==
  sq # NoSearch /\ TermOf(sq.query.start) # <<>> /\ TermOf(sq.query.dest) # <<>> =>
    \A g \in DOMAIN groups :
      LET w == Waypoints(groups[g])
          s == TermOf(sq.query.start)
          d == TermOf(sq.query.dest)
          First(i, x) == w[i] = x /\ \A k \in 1..(i - 1) : w[k] # x
          others == /\ PreferenceStage(groups[g], sq.query)
                    /\ CapacityStage(groups[g], sq.query)
                    /\ TimeStage(groups[g], sq.query)
                    /\ ~(groups[g].preference = "FEMALE_ONLY"
                         /\ sq.viewer # 0 /\ UserGender(sq.viewer) = "M")
      IN  /\ g \in Found <=>
               /\ others
               /\ \E i \in DOMAIN w, j \in DOMAIN w : First(i, s) /\ First(j, d) /\ i < j
          /\ w = RouteABCD /\ s = Delhi /\ d = Chandigarh => g \notin Found
          /\ w = RouteABCD /\ s = Chandigarh /\ d = Patiala /\ others => g \in Found

\* Delhi -> Chandigarh is asked, and a group on Chandigarh, [Delhi, New Delhi],
\* Patiala that passes every other stage is not answered
RouteOrderWitness ==
  /\ sq # NoSearch /\ sq.query.start = Delhi /\ sq.query.dest = Chandigarh
  /\ sq.viewer = 0
  /\ Waypoints(groups[1]) = RouteABCD
  /\ 1 \notin Found

\* ----------------------------------------------------------------- C12
\* C12: the position looked up for a term of the query in a group's waypoints
\* is the smallest index whose waypoint contains the term as a substring,
\* letter case ignored (none when no waypoint does); so the term Delhi finds
\* the waypoint New Delhi.
SubstringPosition ==
  sq # NoSearch =>
    \A g \in DOMAIN groups :
      \A term \in {TermOf(sq.query.start), TermOf(sq.query.dest)} \ {<<>>} :
        LET w == Waypoints(groups[g])
            Contains(x) ==
              \E k \in 0..(Len(x) - Len(term)) :
                toLowerCase(SubSeq(x, k + 1, k + Len(term))) = toLowerCase(term)
            pos == array_position(w, term)
        IN  IF \E i \in DOMAIN w : Contains(w[i])
            THEN pos # 0 /\ Contains(w[pos]) /\ \A k \in 1..(pos - 1) : ~Contains(w[k])
            ELSE pos = 0

\* ----------------------------------------------------------------- C13
\* C13: for every connection graph, viewer and member reachable from the
\* viewer, the degree reported is the least number of edges of a path between
\* them in the undirected graph: edges {1-2, 2-3, 3-4} give degree 3 from 1 to
\* 4, edges {1-2, 1-3, 3-4, 2-4} give degree 2.
EdgeSet == {{r[1], r[2]} : r \in BagToSet(connections)}

ShortestDegree ==
  served.kind = "mutuals" /\ served.viewer # 0 =>
    LET \* the users at most k edges away from the viewer
        within[k \in 0..NumNodes] ==
          IF k = 0 THEN {served.viewer}
          ELSE LET nearer == within[k - 1]
               IN  nearer \cup {n \in GraphUsers : \E x \in nearer : {x, n} \in EdgeSet}
        Within(k) == within[k]
        Reported(t, d) ==
          \E f \in served.mutual_friends : f.uid = t /\ f.degree = d
    IN  /\ \A t \in served.members \ {served.viewer} :
             \A k \in 1..NumNodes :
               t \in Within(k) /\ t \notin Within(k - 1) =>
                 /\ Reported(t, k)
                 /\ \A f \in served.mutual_friends : f.uid = t => f.degree = k
        /\ EdgeSet = {{1, 2}, {2, 3}, {3, 4}} /\ served.viewer = 1
             /\ 4 \in served.members => Reported(4, 3)
        /\ EdgeSet = {{1, 2}, {1, 3}, {3, 4}, {2, 4}} /\ served.viewer = 1
             /\ 4 \in served.members => Reported(4, 2)

\* the degree of user 4 is asked for user 1 on the graph with two paths of
\* two edges, entered in both orders of a pair
ShortestDegreeWitness ==
  /\ served.kind = "mutuals" /\ served.viewer = 1 /\ served.members = {4}
  /\ BagToSet(connections) = {<<2, 1>>, <<1, 3>>, <<4, 3>>, <<2, 4>>}
  /\ \E f \in served.mutual_friends : f.uid = 4 /\ f.degree = 2

\* ----------------------------------------------------------------- C14
\* C14: the mutual_friends of a viewer and a group are exactly the members of
\* the group, the viewer excepted, that a path of the connection graph links
\* to the viewer, each once and with a degree of at least 1; the viewer is
\* never listed and neither is a member that no path reaches.
MutualsExact ==
  served.kind = "mutuals" =>
    LET linked[k \in 0..NumNodes] ==
          IF k = 0 THEN {served.viewer}
          ELSE LET nearer == linked[k - 1]
               IN  nearer \cup {n \in GraphUsers : \E x \in nearer : {x, n} \in EdgeSet}
        reachable == IF served.viewer = 0 THEN {} ELSE linked[NumNodes]
    IN  /\ {f.uid : f \in served.mutual_friends}
             = (served.members \ {served.viewer}) \cap reachable
        /\ \A f \in served.mutual_friends :
             /\ f.degree \in 1..(NumNodes - 1)
             /\ \A h \in served.mutual_friends : h.uid = f.uid => h = f

\* the viewer is a member; of the other two members one is linked to the
\* viewer and listed, one is not and is left out
MutualsExactWitness ==
  /\ served.kind = "mutuals" /\ served.viewer = 1 /\ served.members = {1, 3, 4}
  /\ EdgeSet = {{1, 2}, {2, 3}}
  /\ {f.uid : f \in served.mutual_friends} = {3}

\* ----------------------------------------------------------------- C15
\* The group of handler p's request was created with every option left to its
\* default (capacity 4, the creator joined) and its members are the creator
\* and the one other user u
DefaultGroupWith(g, u) ==
  /\ g \in DOMAIN groups
  /\ groups[g].capacity = DefaultCapacity /\ groups[g].preference = "ALL"
  /\ u # groups[g].created_by
  /\ BagToSet(members) \cap ({g} \X Users) = {<<g, groups[g].created_by>>, <<g, u>>}

\* C15 as claimed: on such a group the answer to u's join presents seats_left
\* 3, and a second join by u is answered "already a member" with seats_left
\* still 3.
JoinLeavesThreeSeats ==
  /\ [][\A p \in Procs :
          JoinFormat(p) /\ DefaultGroupWith(rq[p].gid, rq[p].uid)
            => resp'[p] = ok("group", 3)]_vars
  /\ [](\A p \in Procs :
          Decided(p, "join") /\ DefaultGroupWith(rq[p].gid, rq[p].uid)
            => /\ Declines(p, respondError(400, "already a member"))
               /\ SeatsLeft(groups[rq[p].gid], members, rq[p].gid) = 3)

\* C15 as amended: the answer to u's join presents seats_left 2, the creator
\* holding a seat too, and a second join by u is answered "already a member"
\* with seats_left still 2.
JoinLeavesTwoSeats ==
  /\ [][\A p \in Procs :
          JoinFormat(p) /\ DefaultGroupWith(rq[p].gid, rq[p].uid)
            => resp'[p] = ok("group", 2)]_vars
  /\ [](\A p \in Procs :
          Decided(p, "join") /\ DefaultGroupWith(rq[p].gid, rq[p].uid)
            => /\ Declines(p, respondError(400, "already a member"))
               /\ SeatsLeft(groups[rq[p].gid], members, rq[p].gid) = 2)

\* u was answered seats_left 2 for the join, and u's second join is refused
JoinLeavesTwoSeatsWitness ==
  \E p \in Procs, q \in Procs :
    /\ Decided(p, "join") /\ DefaultGroupWith(rq[p].gid, rq[p].uid)
    /\ pc[q] = "idle" /\ resp[q] = ok("group", 2)

\* ----------------------------------------------------------------- C16
\* C16: a join, leave or delete that is answered with a denial (creator cannot
\* join, female-only, full, already a member, creator must delete, only
\* creator can delete) or with group not found has written nothing: none of
\* its steps changed a row of groups, group_members or connections, and it
\* holds no uncommitted write when it rolls back.
Denials ==
  {respondError(400, "creator cannot join own group"),
   respondError(403, "female-only group"),
   respondError(400, "group full"),
   respondError(400, "already a member"),
   respondError(400, "creator must delete group"),
   respondError(403, "only creator can delete"),
   respondError(404, "group not found")}

DenialWritesNothing ==
  \A p \in Procs :
    resp[p] \in Denials /\ pc[p] \in {"rollback", "idle"}
      => ~wrote[p] /\ tx[p] = <<>>

\* a member who is not the creator was refused the delete of a group with two
\* members, and the rows are there
DenialWritesNothingWitness ==
  \E p \in Procs :
    /\ pc[p] = "idle" /\ resp[p] = respondError(403, "only creator can delete")
    /\ 1 \in DOMAIN groups /\ CountMembers(members, 1) = 2

\* ----------------------------------------------------------------- C17
\* C17: the group insert of create-trip and the insert of its creator's
\* membership row are one transaction: the group is in no committed state
\* before the COMMIT, the COMMIT of a request with auto-join brings the group
\* and the creator's row together, and a statement that fails before the
\* COMMIT, the membership insert included, is answered 500 and leaves neither.
CreateIsOneTransaction ==
  /\ [](\A p \in Procs :
          pc[p] \in {"c_member", "c_commit"} => rq[p].gid \notin DOMAIN groups)
  /\ [][\A p \in Procs :
          /\ CreateTripCommit(p) /\ rq[p].auto_join_creator
               => /\ rq[p].gid \in DOMAIN groups'
                  /\ IsMember(members', rq[p].gid, rq[p].uid)
          /\ StorageError(p) /\ pc[p] \in {"c_member", "c_commit"}
               => /\ rq[p].gid \notin DOMAIN groups'
                  /\ CountMembers(members', rq[p].gid) = 0
                  /\ groups' = groups /\ members' = members
                  /\ resp'[p] = respondError(500, "could not create group")]_vars

\* a create-trip was answered 500 with nothing committed by any of its steps,
\* and no group is stored
CreateIsOneTransactionWitness ==
  \E p \in Procs :
    /\ pc[p] = "idle" /\ resp[p] = respondError(500, "could not create group")
    /\ ~wrote[p] /\ gidSeq = 1 /\ groups = <<>>
    /\ \A q \in Procs : pc[q] = "idle"

\* ----------------------------------------------------------------- C18
\* C18: the connections table never holds a row of a user with themself, nor
\* two rows for one unordered pair of users, in the same or in opposite
\* order; a connect of a pair that has a row, asked in either order, changes
\* nothing and answers 200 with created = false, and a connect of a new pair
\* of users adds its one row and answers created = true.
ConnectIdempotent ==
  /\ [](\A r \in BagToSet(connections) :
          /\ r[1] # r[2]
          /\ CopiesIn(r, connections) = 1
          /\ <<r[2], r[1]>> \notin BagToSet(connections))
  /\ [][\A uid \in GraphUsers, other \in GraphUsers :
          uid # other /\ Connect(uid, other) =>
            IF {uid, other} \in EdgeSet
            THEN /\ connections' = connections
                 /\ served'.code = 200 /\ served'.created = FALSE
            ELSE /\ connections' = connections (+) SetToBag({<<uid, other>>})
                 /\ served'.code = 200 /\ served'.created = TRUE]_vars

\* the pair connected as (1, 2) was asked again as (2, 1) and answered
\* created = false
ConnectIdempotentWitness ==
  /\ served.kind = "connect" /\ served.uid = 2 /\ served.other = 1
  /\ served.code = 200 /\ served.created = FALSE
  /\ <<1, 2>> \in BagToSet(connections)

\* ----------------------------------------------------------------- C19
\* C19: the validation of create-trip answers an error for every body whose
\* capacity is outside 1..200 and for every body of preference FEMALE_ONLY
\* sent by a user whose gender is not F: 403 "only female users can create
\* FEMALE_ONLY groups", or "capacity must be between 1 and 200", unless an
\* earlier check refuses the body; a step in which a handler answers such an
\* error at once, the others standing still, writes nothing, and one that goes on to the INSERT has a capacity in 1..200 and,
\* when FEMALE_ONLY, a female creator; so every group stored, committed or
\* written in an open transaction, has a capacity in 1..200.
CreateRejected ==
  /\ [](\A u \in Users, body \in TripBodies :
          LET err == CreateTripChecked[u, body].err
              mismatch == PreferenceOf(body.preference) = "FEMALE_ONLY" /\ UserGender(u) # "F"
              outside == CapacityOf(body.capacity) \notin 1..MaxCapacity
              early == {respondError(400, "authenticated user, start and dest required"),
                        respondError(400, "Invalid start city"),
                        respondError(400, "Invalid destination city"),
                        respondError(400, "either start or destination must be Patiala"),
                        respondError(400, "invalid preference")}
          IN  /\ mismatch => err \in early \cup
                    {respondError(403, "only female users can create FEMALE_ONLY groups")}
              /\ outside /\ ~mismatch => err \in early \cup
                    {respondError(400, "capacity must be between 1 and 200")})
  /\ [][\A p \in Procs :
          /\ pc[p] = "idle" /\ pc'[p] = "idle" /\ resp'[p].code \in {400, 403}
               /\ (\A q \in Procs \ {p} : pc'[q] = pc[q] /\ resp'[q] = resp[q])
               => UNCHANGED <<groups, members, tx, gidSeq>>
          /\ pc[p] = "idle" /\ pc'[p] = "c_member"
               => LET row == tx'[p][1].row
                  IN  /\ row.capacity \in 1..MaxCapacity
                      /\ row.preference = "FEMALE_ONLY" => UserGender(row.created_by) = "F"]_vars
  /\ [](/\ \A g \in DOMAIN groups : groups[g].capacity \in 1..MaxCapacity
        /\ \A p \in Procs : \A g \in DOMAIN View(p).g :
             View(p).g[g].capacity \in 1..MaxCapacity)

\* a group is stored, and a body with capacity 201 has just been refused
CreateRejectedWitness ==
  \E p \in Procs :
    /\ pc[p] = "idle" /\ resp[p] = respondError(400, "capacity must be between 1 and 200")
    /\ ~wrote[p] /\ groups # <<>>

\* ----------------------------------------------------------------- C20
\* C20: when a desired departure time is given and the scope is not "day", a
\* group that passes the other stages is answered iff it has a departure
\* timestamp and that timestamp is at most window_minutes (60 when none is
\* given) before or after the desired instant, both ends included; a group
\* without a departure timestamp is not answered whenever a desired time is
\* given, whatever the scope; with no desired time every group that passes the
\* other stages is answered.
TimeWindow ==
  sq # NoSearch =>
    \A g \in DOMAIN groups :
      LET dep == groups[g].departure_date
          want == sq.query.departure
          mins == IF sq.query.time_window_mins > 0 THEN sq.query.time_window_mins ELSE 60
          others == /\ PreferenceStage(groups[g], sq.query)
                    /\ CapacityStage(groups[g], sq.query)
                    /\ RouteStage(groups[g], sq.query)
                    /\ ~(groups[g].preference = "FEMALE_ONLY"
                         /\ sq.viewer # 0 /\ UserGender(sq.viewer) = "M")
      IN  /\ want # -1 /\ sq.query.scope # "day" =>
                (g \in Found <=>
                   /\ others /\ dep # -1
                   /\ want - mins * 60000 <= dep /\ dep <= want + mins * 60000)
          /\ want # -1 /\ dep = -1 => g \notin Found
          /\ want = -1 => (g \in Found <=> others)

\* the desired instant is 60 minutes before the departure of the second
\* group, which is answered; the first group has no departure and is not
TimeWindowWitness ==
  /\ sq # NoSearch /\ sq.viewer = 0
  /\ sq.query.departure = T0 - 15 * MinuteMs
  /\ sq.query.scope = "" /\ sq.query.time_window_mins = 0
  /\ groups[1].departure_date = -1 /\ groups[2].departure_date = T0 + 45 * MinuteMs
  /\ PreferenceStage(groups[1], sq.query) /\ CapacityStage(groups[1], sq.query)
  /\ RouteStage(groups[1], sq.query)
  /\ Found = {2}

\* ----------------------------------------------------------------- C21
\* C21: the answer of a search is in order: with a desired departure time, by
\* growing distance in time from the desired instant, and among equal
\* distances by falling seats_left; with none, by growing departure timestamp,
\* groups without a timestamp last, and among equal timestamps by falling
\* seats_left.
ResultOrdered ==
  sq # NoSearch =>
    \A i \in DOMAIN found : \A j \in DOMAIN found :
      i < j =>
        LET a == found[i]
            b == found[j]
            want == sq.query.departure
            Abs(x) == IF x < 0 THEN 0 - x ELSE x
        IN  IF want # -1
            THEN \/ Abs(a.departure_date - want) < Abs(b.departure_date - want)
                 \/ /\ Abs(a.departure_date - want) = Abs(b.departure_date - want)
                    /\ a.seats_left >= b.seats_left
            ELSE \/ a.departure_date # -1 /\ b.departure_date = -1
                 \/ /\ a.departure_date # -1 /\ b.departure_date # -1
                    /\ a.departure_date < b.departure_date
                 \/ /\ a.departure_date = b.departure_date
                    /\ a.seats_left >= b.seats_left

\* ----------------------------------------------------------------- C22
\* C22: with a max_size, a group that passes the other stages is answered iff
\* its capacity is at least max_size; the seats taken play no part, a full
\* group of that capacity is answered.
CapacityFloor ==
  sq # NoSearch /\ sq.query.max_size # 0 =>
    \A g \in DOMAIN groups :
      LET others == /\ PreferenceStage(groups[g], sq.query)
                    /\ RouteStage(groups[g], sq.query)
                    /\ TimeStage(groups[g], sq.query)
                    /\ ~(groups[g].preference = "FEMALE_ONLY"
                         /\ sq.viewer # 0 /\ UserGender(sq.viewer) = "M")
      IN  /\ g \in Found <=> others /\ ~(groups[g].capacity < sq.query.max_size)
          /\ others /\ groups[g].capacity >= sq.query.max_size
               /\ CountMembers(members, g) >= groups[g].capacity
               => \E i \in DOMAIN found : found[i].gid = g /\ found[i].seats_left = 0

\* max_size is 1, and the first group, of capacity 1 and with its creator in
\* it, is answered with no seat left
CapacityFloorWitness ==
  /\ sq # NoSearch /\ sq.query.max_size = 1
  /\ groups[1].capacity = 1 /\ CountMembers(members, 1) = 1
  /\ \E i \in DOMAIN found : found[i].gid = 1 /\ found[i].seats_left = 0

\* ----------------------------------------------------------------- C23
\* C23: on every connection graph, for every source and every set of targets,
\* the degrees that the path-by-path search gives (a path never comes back to
\* a user on it, the least depth is kept) are those of a breadth-first search
\* that keeps one set of visited users: the same users are reached, each at
\* the same depth.
RECURSIVE VisitedBfs(_, _, _, _)
VisitedBfs(frontier, visited, depth, dist) ==
  IF frontier = {} THEN dist
  ELSE LET next == {n \in GraphUsers \ visited : \E x \in frontier : {x, n} \in EdgeSet}
       IN  VisitedBfs(next, visited \cup next, depth + 1,
                      [n \in DOMAIN dist \cup next |->
                         IF n \in next THEN depth + 1 ELSE dist[n]])

VisitedFrom(a) == VisitedBfs({a}, {a}, 0, [n \in {a} |-> 0])

SameAsVisitedSetBfs ==
  /\ served.kind = "degree" =>
       LET dist == VisitedFrom(served.a)
       IN  served.degree = IF served.b \in DOMAIN dist THEN dist[served.b] ELSE NoDegree
  /\ served.kind = "mutuals" /\ served.viewer # 0 =>
       LET dist == VisitedFrom(served.viewer)
       IN  {<<f.uid, f.degree>> : f \in served.mutual_friends}
             = {<<t, dist[t]>> : t \in (served.members \ {served.viewer}) \cap DOMAIN dist}

\* the degree from 1 to 4 is asked on the square 1-2-4-3-1, where two paths
\* of two edges and no shorter one lead from 1 to 4
SameAsVisitedSetBfsWitness ==
  /\ served.kind = "degree" /\ served.a = 1 /\ served.b = 4
  /\ EdgeSet = {{1, 2}, {2, 4}, {3, 4}, {1, 3}}
  /\ served.degree = 2

\* ----------------------------------------------------------------- C24
\* C24: a statement that fails inside the transaction of a create, join, leave
\* or delete rolls all of it back and the request is answered an error: no
\* step of the request has changed a committed table; a delete that fails
\* after its DELETE of the membership rows and before its DELETE of the group
\* leaves the group and all of its membership rows committed.
InTransaction == {"lock", "check", "commit", "delgroup", "delcommit", "rollback",
                  "c_member", "c_commit"}

FailureRollsBack ==
  /\ [](\A p \in Procs : pc[p] \in InTransaction => ~wrote[p])
  /\ [][\A p \in Procs :
          StorageError(p) /\ pc[p] \in InTransaction
            => /\ groups' = groups /\ members' = members
               /\ tx'[p] = <<>>
               /\ resp'[p].code = 500
               /\ ~wrote'[p]]_vars
  /\ [](failed # 0 =>
          /\ failed \in DOMAIN groups
          /\ \E p \in Procs :
               /\ pc[p] = "idle" /\ resp[p] = respondError(500, "server error")
               /\ ~wrote[p] /\ tx[p] = <<>>)

\* a delete has just failed between its two statements, and the group is
\* there with its two membership rows
FailureRollsBackWitness ==
  /\ failed # 0 /\ failed \in DOMAIN groups
  /\ CountMembers(members, failed) = 2
  /\ IsMember(members, failed, groups[failed].created_by)

\* ----------------------------------------------------------------- C25
\* C25: a join is answered the first reason that holds in the order group not
\* found, creator of the group, FEMALE_ONLY group and male user, group full,
\* already a member, and is accepted when none holds; so a member who joins
\* again a group that is at capacity is answered "group full".
JoinCheckOrder ==
  \A p \in Procs :
    rq[p].op = "join" =>
      LET g == rq[p].gid
          u == rq[p].uid
      IN  /\ pc[p] = "rollback" /\ g \notin DOMAIN groups
               => Declines(p, respondError(404, "group not found"))
          /\ Decided(p, "join") =>
               IF groups[g].created_by = u
                 THEN Declines(p, respondError(400, "creator cannot join own group"))
               ELSE IF groups[g].preference = "FEMALE_ONLY" /\ UserGender(u) = "M"
                 THEN Declines(p, respondError(403, "female-only group"))
               ELSE IF CountMembers(members, g) >= groups[g].capacity
                 THEN Declines(p, respondError(400, "group full"))
               ELSE IF IsMember(members, g, u)
                 THEN Declines(p, respondError(400, "already a member"))
               ELSE pc[p] = "commit" /\ tx[p] = <<Write("insM", g, u, NoRow)>>

\* a member who is not the creator joins again a group that is at capacity
\* and is answered "group full"
JoinCheckOrderWitness ==
  \E p \in Procs :
    /\ Decided(p, "join") /\ IsMember(members, rq[p].gid, rq[p].uid)
    /\ groups[rq[p].gid].created_by # rq[p].uid
    /\ CountMembers(members, rq[p].gid) >= groups[rq[p].gid].capacity
    /\ resp[p] = respondError(400, "group full")

\* ----------------------------------------------------------------- C26
\* C26: the COMMIT of a create-trip with auto-join stores the creator's
\* membership row with the group, and the creator's row of a group is in
\* every later committed state as long as the group is: no join and no leave,
\* by anybody, removes it.
CreatorStaysMember ==
  [][/\ \A p \in Procs :
          pc[p] = "c_commit" /\ pc'[p] = "c_format" /\ rq[p].auto_join_creator
            => /\ rq[p].gid \in DOMAIN groups'
               /\ IsMember(members', rq[p].gid, rq[p].uid)
               /\ groups'[rq[p].gid].created_by = rq[p].uid
     /\ \A g \in DOMAIN groups :
          IsMember(members, g, groups[g].created_by) /\ g \in DOMAIN groups'
            => /\ groups'[g].created_by = groups[g].created_by
               /\ IsMember(members', g, groups'[g].created_by)]_vars

\* the creator asked to leave and was refused, another member left, and the
\* creator's row is the one row of the group
CreatorStaysMemberWitness ==
  \E g \in DOMAIN groups, p \in Procs, q \in Procs :
    /\ IsMember(members, g, groups[g].created_by) /\ CountMembers(members, g) = 1
    /\ groups[g].capacity = 2 /\ DOMAIN groups = {g}
    /\ pc[p] = "idle" /\ resp[p] = respondError(400, "creator must delete group")
    /\ pc[q] = "idle" /\ resp[q] = ok("left", 1)

\* ----------------------------------------------------------------- C27
\* C27: in every reachable state no user whose gender is M has a membership
\* row in a FEMALE_ONLY group, neither committed nor written by an open
\* transaction.
NoMaleInFemaleOnly ==
  /\ \A r \in BagToSet(members) :
       r[1] \in DOMAIN groups /\ groups[r[1]].preference = "FEMALE_ONLY"
         => UserGender(r[2]) # "M"
  /\ \A p \in Procs : \A r \in BagToSet(View(p).m) :
       r[1] \in DOMAIN View(p).g /\ View(p).g[r[1]].preference = "FEMALE_ONLY"
         => UserGender(r[2]) # "M"

\* a FEMALE_ONLY group with its creator auto-joined and a free seat, and a
\* male user whose join is being refused
NoMaleInFemaleOnlyWitness ==
  \E g \in DOMAIN groups, p \in Procs :
    /\ groups[g].preference = "FEMALE_ONLY" /\ groups[g].capacity = 2
    /\ IsMember(members, g, groups[g].created_by) /\ CountMembers(members, g) = 1
    /\ rq[p].op = "join" /\ rq[p].gid = g /\ UserGender(rq[p].uid) = "M"
    /\ Declines(p, respondError(403, "female-only group"))

\* ----------------------------------------------------------------- C28
\* C28: on every connection graph, cycles included, and from every user the
\* search ends: the rows added in round k are paths of k + 1 different users,
\* so a path has at most as many users as there are, and the round after the
\* longest possible path adds no row.
TraversalEnds ==
  \A a \in GraphUsers :
    LET round[k \in 0..NumNodes] ==
          IF k = 0 THEN {<<a>>}
          ELSE LET before == round[k - 1] IN Expand(connections, before)
    IN  /\ \A k \in 0..NumNodes : \A path \in round[k] :
             /\ Len(path) = k + 1 /\ Len(path) <= NumNodes
             /\ \A i \in DOMAIN path : \A j \in DOMAIN path : path[i] = path[j] => i = j
        /\ round[NumNodes] = {}
        /\ bfs(connections, {<<a>>}) = UNION {round[k] : k \in 0..NumNodes}

\* a degree was computed on a graph with the cycle 1-2-3-1 and the edge 3-4
TraversalEndsWitness ==
  /\ served.kind = "degree" /\ served.a = 1 /\ served.b = 4
  /\ EdgeSet = {{1, 2}, {2, 3}, {1, 3}, {3, 4}}
  /\ served.degree = 2

\* ----------------------------------------------------------------- C30
\* C30: user_connection_degree(a, b) is user_connection_degree(b, a) for every
\* connection set and every two users, no degree both ways when no path links
\* them: an edge (u1, u2) is followed from u1 to u2 and from u2 to u1.
DegreeSymmetric ==
  /\ served.kind = "degree" =>
       served.degree = user_connection_degree(connections, served.b, served.a)
  /\ \A r \in BagToSet(connections) :
       /\ user_connection_degree(connections, r[1], r[2]) = 1
       /\ user_connection_degree(connections, r[2], r[1]) = 1

\* the degree from 4 to 1 is asked on the chain entered as (1, 2), (2, 3),
\* (3, 4): every edge is followed from u2 to u1
DegreeSymmetricWitness ==
  /\ served.kind = "degree" /\ served.a = 4 /\ served.b = 1
  /\ BagToSet(connections) = {<<1, 2>>, <<2, 3>>, <<3, 4>>}
  /\ served.degree = 3

\* ----------------------------------------------------------------- C29
\* C29: a join and a delete of the same group, open at the same time, go one
\* after the other through the row lock of the group: they are never both past
\* their SELECT ... FOR UPDATE and before their COMMIT or ROLLBACK; a join
\* whose group is gone has either committed before the delete did, or is
\* still waiting, or answers "group not found"; and no membership row of a
\* group that is gone is in a committed state.
HoldsRow(p) ==
  \/ pc[p] \in {"check", "commit", "delgroup", "delcommit"}
  \/ pc[p] = "rollback" /\ resp[p] # respondError(404, "group not found")

JoinDeleteSerialized ==
  /\ \A p \in Procs : \A q \in Procs \ {p} :
       rq[p].op = "join" /\ rq[q].op = "delete" /\ rq[p].gid = rq[q].gid
         => ~(HoldsRow(p) /\ HoldsRow(q))
  /\ \A p \in Procs :
       rq[p].op = "join" /\ rq[p].gid \notin DOMAIN groups
         => \/ pc[p] \in {"lock", "format"}
            \/ Declines(p, respondError(404, "group not found"))
  /\ \A g \in Gids : g \notin DOMAIN groups => CountMembers(members, g) = 0

\* a join has committed and not answered yet, the delete that waited for it
\* has committed after it and been answered: the group and the row are gone
JoinDeleteSerializedWitness ==
  \E p \in Procs, q \in Procs :
    /\ rq[p].op = "join" /\ pc[p] = "format" /\ wrote[p]
    /\ rq[p].gid \notin DOMAIN groups
    /\ pc[q] = "idle" /\ resp[q] = ok("deleted", -1) /\ wrote[q]
    /\ members = EmptyBag

====
